---- MODULE Spec2Model ----
(***************************************************************************)
(* Model of the survey codebase's two task-serving web services:           *)
(*   - the Firestore-backed service (URL_database.py): get_task_urls,      *)
(*     update_task_availability, list_unavailable_occupations, import_data *)
(*   - the SQLite-backed service (qualtrics_database.py): get_task,        *)
(*     update_completion, load_data, reset_assignments                     *)
(* and of its offline scripts:                                             *)
(*   - PDF_upload.py: generate_latin_square_orders,                        *)
(*     verify_latin_square_balance, apply_model_randomization,             *)
(*     upload_to_dropbox_async and process_task_batch                      *)
(*   - update_embedded_data.py: update_hidden_occupation_numbers           *)
(*   - completion_codes_config.py: determine_completion_code and           *)
(*     get_api_action_for_completion_code                                  *)
(*   - generate_review_plan.py: generate_review_plan                       *)
(* Handlers whose reads and writes are separate database round trips are   *)
(* split at those round trips, so that concurrent requests interleave      *)
(* exactly where the code lets them.                                       *)
(***************************************************************************)
EXTENDS Integers, Sequences, FiniteSets, TLC

VARIABLES
    store,                          \* Firestore collection task_instances: doc id -> document
    store0,                         \* history: the collection before the requests under study
    refreshed,                      \* history: the occupations that had instances, none of them
                                    \* available, when the cache was last refreshed
    unavailable_occupations_cache,  \* the module-level cache dict
    now,                            \* datetime.now(), in minutes
    req,                            \* get_task_urls requests in flight / answered
    resp,                           \* last answer of the single-step handlers
    tasks,                          \* SQLite table tasks: set of rows
    task_instances,                 \* SQLite table task_instances: id -> row
    model_responses,                \* SQLite table model_responses: instance id -> urls in row order
    sreq,                           \* get_task requests in flight / answered
    sresp,                          \* last answer of the SQLite service's single-step handlers
    latin,                          \* PDF_upload.py: the last call of generate_latin_square_orders
    decision,                       \* completion_codes_config.py: the last call and its result
    plan,                           \* generate_review_plan: its arguments and locals
    upload,                         \* PDF_upload.py: one call of upload_to_dropbox_async
    batch,                          \* PDF_upload.py: one call of process_task_batch
    sheet,                          \* PDF_upload.py: one call of apply_model_randomization
    updater                         \* update_embedded_data.py: one call of
                                    \* update_hidden_occupation_numbers

fsVars == <<store, store0, refreshed, unavailable_occupations_cache, now, req, resp>>
sqlVars == <<tasks, task_instances, model_responses, sreq, sresp>>
\* what each service's handlers leave alone
laterVars == <<upload, batch, sheet, updater>>
scriptVars == <<latin, decision, plan, laterVars>>
otherThanFs == <<sqlVars, scriptVars>>
otherThanSql == <<fsVars, scriptVars>>
otherThanLatin == <<fsVars, sqlVars, decision, plan, laterVars>>
otherThanDecision == <<fsVars, sqlVars, latin, plan, laterVars>>
otherThanPlan == <<fsVars, sqlVars, latin, decision, laterVars>>
otherThanUpload == <<fsVars, sqlVars, latin, decision, plan, batch, sheet, updater>>
otherThanBatch == <<fsVars, sqlVars, latin, decision, plan, upload, sheet, updater>>
otherThanSheet == <<fsVars, sqlVars, latin, decision, plan, upload, batch, updater>>
otherThanUpdater == <<fsVars, sqlVars, latin, decision, plan, upload, batch, sheet>>
vars ==
    <<store, store0, refreshed, unavailable_occupations_cache, now, req, resp,
      tasks, task_instances, model_responses, sreq, sresp, latin, decision, plan,
      upload, batch, sheet, updater>>

(***************************************************************************)
(* Bounds of the model.                                                    *)
(***************************************************************************)
NumDocs == 3
NumRequests == 3
MaxTime == 1
MaxItems == 2
NumInstances == 3
MaxRound == 2
MaxRows == 10
MaxSubmissions == 2

(***************************************************************************)
(* Values.  A missing string parameter / field is None; an optional time   *)
(* is <<>> (None) or <<t>>.                                                *)
(***************************************************************************)
None == "None"
NoTime == <<>>
At(t) == <<t>>

DocIds == 1..NumDocs
MissingDocId == NumDocs + 1
Requests == 1..NumRequests
Times == 0..MaxTime

TaskIds == {"task1", "task2"}
OccupationIds == {"data_scientist", "software_engineer"}
\* alphabetical order of the occupation ids (Python string comparison)
OccRank(o) == IF o = "data_scientist" THEN 1 ELSE 2

NumResponseUrls == 5

TaskOf(d) == IF d % 2 = 1 THEN "task1" ELSE "task2"
OccOf(d) == IF d % 2 = 1 THEN "software_engineer" ELSE "data_scientist"

\* A task instance document as an import file row describes it.
Doc(d, avail) ==
    [task_id |-> TaskOf(d), occupation_id |-> OccOf(d), available |-> avail,
     assigned_at |-> NoTime, task_url |-> <<"task", d>>,
     response_url |-> [k \in 1..NumResponseUrls |-> <<"response", d, k>>]]

\* Collections an import into the empty database produces.
LoadedStores ==
    UNION {{[d \in S |-> Doc(d, a[d])] : a \in [S -> BOOLEAN]} : S \in SUBSET DocIds}

(***************************************************************************)
(* Firestore service: GET /get_task_urls                                   *)
(***************************************************************************)
\* query parameters of a request: task_id and occupation_id, each optional
GetParams ==
    {[task_id |-> t, occupation_id |-> None] : t \in TaskIds \cup {""}}
        \cup {[task_id |-> None, occupation_id |-> o] : o \in OccupationIds \cup {None}}

\* Python truthiness of an optional string: "if not task_id"
Falsy(x) == x = None \/ x = ""

NoBody == [task_url |-> <<>>, response_urls |-> <<>>, task_instance_id |-> 0]
IdleReq ==
    [pc |-> "idle", task_id |-> None, occupation_id |-> None, doc |-> 0,
     status |-> 0, body |-> NoBody]

\* .where("task_id", "==", task_id).where("available", "==", True)
MatchesAnyAvailability(s, tid) == {d \in DOMAIN s : s[d].task_id = tid}
Matches(s, tid) == {d \in DOMAIN s : s[d].task_id = tid /\ s[d].available = TRUE}

\* .limit(1): the first match in document-id order
FirstOf(S) == CHOOSE d \in S : \A e \in S : d <= e

ResponseData(d, task_data) ==
    [task_url |-> task_data.task_url,
     response_urls |-> [k \in 1..NumResponseUrls |-> task_data.response_url[k]],
     task_instance_id |-> d]

\* the fields written by update_in_transaction
KeepAvailable(task_data, t) == [task_data EXCEPT !.assigned_at = At(t)]
MarkUnavailable(task_data, t) ==
    [task_data EXCEPT !.available = FALSE, !.assigned_at = At(t)]

\* First round trip: read the parameter, run the query, build the response.
GetTaskUrlsQuery(r, p) ==
    /\ req[r].pc = "idle"
    /\ LET found == Matches(store, p.task_id)
           asked == [IdleReq EXCEPT !.task_id = p.task_id,
                                    !.occupation_id = p.occupation_id]
       IN  req' = [req EXCEPT ![r] =
                IF Falsy(p.task_id)
                THEN [asked EXCEPT !.pc = "done", !.status = 400]
                ELSE IF found = {}
                THEN [asked EXCEPT !.pc = "done", !.status = 404]
                ELSE [asked EXCEPT !.pc = "queried", !.doc = FirstOf(found),
                          !.body = ResponseData(FirstOf(found), store[FirstOf(found)])]]
    /\ UNCHANGED <<store, store0, refreshed, unavailable_occupations_cache, now, resp, otherThanFs>>

\* Second round trip: the transaction that updates the document read before
\* (an update of a document that no longer exists raises, answered 500),
\* then the response.
GetTaskUrlsUpdate(r) ==
    /\ req[r].pc = "queried"
    /\ IF req[r].doc \in DOMAIN store
       THEN /\ store' = [store EXCEPT ![req[r].doc] = MarkUnavailable(@, now)]
            /\ req' = [req EXCEPT ![r].pc = "done", ![r].status = 200]
       ELSE /\ store' = store
            /\ req' = [req EXCEPT ![r].pc = "done", ![r].status = 500,
                                  ![r].body = NoBody]
    /\ UNCHANGED <<store0, refreshed, unavailable_occupations_cache, now, resp, otherThanFs>>

EmptyCache == [data |-> <<>>, last_updated |-> NoTime, cache_duration |-> 15]
NoResp == [op |-> "none", status |-> 0]

(***************************************************************************)
(* Firestore service: POST /update_task_availability                       *)
(***************************************************************************)
\* Collections reached once some of the imported instances have been handed
\* out (at time 0).
ServedStores ==
    UNION {{[d \in S |-> IF v[d] THEN Doc(d, TRUE)
                         ELSE MarkUnavailable(Doc(d, TRUE), 0)] : v \in [S -> BOOLEAN]} :
              S \in SUBSET DocIds}

\* One element of the "task_instances" list: the keys it has and their values.
BothKeys == {"task_instance_id", "available"}
UpdateItems ==
    {[keys |-> BothKeys, task_instance_id |-> d, available |-> a] :
        d \in DocIds \cup {MissingDocId}, a \in BOOLEAN}
      \cup {[keys |-> {"available"}, task_instance_id |-> 0, available |-> TRUE],
            [keys |-> {"task_instance_id"}, task_instance_id |-> 1, available |-> FALSE]}

SeqsUpTo(S, n) == UNION {[1..k -> S] : k \in 0..n}

\* JSON bodies: one without the "task_instances" key (as the test posts),
\* and every list of up to MaxItems items.
UpdatePayloads ==
    {[has_task_instances |-> FALSE, task_instances |-> <<>>]}
      \cup {[has_task_instances |-> TRUE, task_instances |-> l] :
               l \in SeqsUpTo(UpdateItems, MaxItems)}

\* the items the loop adds to the batch (line 174)
Batched(items) == SelectSeq(items, LAMBDA it : BothKeys \subseteq it.keys)

\* batch.update(doc_ref, {"available": ...}), applied in order at commit
RECURSIVE FirstWriteWins(_, _)
FirstWriteWins(s, writes) ==
    IF writes = <<>> THEN s
    ELSE [FirstWriteWins(s, Tail(writes)) EXCEPT
              ![Head(writes).task_instance_id].available = Head(writes).available]
RECURSIVE ApplyWrites(_, _)
ApplyWrites(s, writes) ==
    IF writes = <<>> THEN s
    ELSE ApplyWrites([s EXCEPT ![Head(writes).task_instance_id].available =
                          Head(writes).available], Tail(writes))

\* batch.commit(): every update requires its document to exist, else the
\* whole batch fails and nothing is written
CommitSucceeds(s, writes) ==
    \A k \in 1..Len(writes) : writes[k].task_instance_id \in DOMAIN s

UpdateTaskAvailability(data) ==
    /\ LET writes == Batched(data.task_instances)
           answer == [op |-> "update_task_availability", data |-> data,
                      status |-> 200, updated_count |-> Len(writes)]
       IN  IF ~data.has_task_instances
           THEN /\ resp' = [answer EXCEPT !.status = 400, !.updated_count = 0]
                /\ store' = store
           ELSE IF CommitSucceeds(store, writes)
           THEN /\ resp' = answer
                /\ store' = ApplyWrites(store, writes)
           ELSE /\ resp' = [answer EXCEPT !.status = 500, !.updated_count = 0]
                /\ store' = store
    /\ UNCHANGED <<store0, refreshed, unavailable_occupations_cache, now, req, otherThanFs>>

(***************************************************************************)
(* Firestore service: POST /import_data                                    *)
(***************************************************************************)
\* str.lower() on the parameter values used here
Lower(x) ==
    CASE x = "CSV" -> "csv"
      [] x = "TRUE" -> "true"
      [] OTHER -> x

\* A parsed upload: the rows by task_instance_id, each with or without an
\* "available" column.
ImportFiles ==
    UNION {{[d \in S |-> [has_available |-> h, available |-> FALSE]] : h \in BOOLEAN} :
              S \in SUBSET DocIds}

\* the "file" part of the form: missing, with an empty filename, not
\* parsable in the stated format, or one of the files above
Uploads ==
    {[kind |-> k, rows |-> <<>>] : k \in {"missing", "no filename", "unparsable"}}
      \cup {[kind |-> "rows", rows |-> f] : f \in ImportFiles}

ImportRequests ==
    {[file |-> u, format |-> f, clear_existing |-> c] :
        u \in Uploads, f \in {"csv", "json", "CSV", "txt", None},
        c \in {"true", "TRUE", "false", None}}

\* request.form.get(name, default)
FormGet(v, default) == IF v = None THEN default ELSE v

AcceptAnyFormat(format_type) == TRUE
ValidFormat(format_type) == format_type \in {"csv", "json"}

\* the document batch.set writes for a row: available defaults to True
ImportedDoc(d, row) == Doc(d, IF row.has_available THEN row.available ELSE TRUE)

ImportData(q) ==
    /\ LET format_type == Lower(FormGet(q.format, ""))
           clear_existing == Lower(FormGet(q.clear_existing, "false")) = "true"
           kept == IF clear_existing THEN <<>> ELSE store
           rows == q.file.rows
           answer == [op |-> "import_data", data |-> q, status |-> 200,
                      imported_count |-> 0, cleared_existing |-> clear_existing]
       IN  IF q.file.kind \in {"missing", "no filename"} \/ ~ValidFormat(format_type)
           THEN /\ resp' = [answer EXCEPT !.status = 400]
                /\ store' = store
           ELSE IF q.file.kind = "unparsable"
           THEN /\ resp' = [answer EXCEPT !.status = 500]
                /\ store' = kept
           ELSE /\ resp' = [answer EXCEPT !.imported_count = Cardinality(DOMAIN rows)]
                /\ store' = [d \in DOMAIN kept \cup DOMAIN rows |->
                                 IF d \in DOMAIN rows THEN ImportedDoc(d, rows[d])
                                 ELSE kept[d]]
    /\ UNCHANGED <<store0, refreshed, unavailable_occupations_cache, now, req, otherThanFs>>

(***************************************************************************)
(* Firestore service: GET /list_unavailable_occupations                    *)
(***************************************************************************)
\* The occupations with at least one instance and none available.
Depleted(s) ==
    {o \in OccupationIds :
        /\ \E d \in DOMAIN s : s[d].occupation_id = o
        /\ ~\E d \in DOMAIN s : s[d].occupation_id = o /\ s[d].available = TRUE}

\* query parameters: force_refresh, cache_duration (an optional integer,
\* <<>> when not given) and sort
ListParams ==
    {[force_refresh |-> f, cache_duration |-> c, sort |-> o] :
        f \in {"true", "TRUE", None}, c \in {<<>>, <<0>>}, o \in {"alphabetical", None}}

NeverForced(arg) == FALSE
ForceRefresh(arg) == Lower(FormGet(arg, "false")) = "true"

\* last_updated is None or current_time - last_updated > timedelta(minutes)
CacheExpired(last_updated, current_time, cache_duration) ==
    \/ last_updated = NoTime
    \/ current_time - last_updated[1] > cache_duration

OccupationDocs(s, o) == {d \in DOMAIN s : s[d].occupation_id = o}
AllOccupationIds(s) == {s[d].occupation_id : d \in DOMAIN s}

\* the loop of lines 308-325: any_available
SomeUnavailable(s, o) == \E d \in OccupationDocs(s, o) : ~s[d].available
NoneAvailable(s, o) == \A d \in OccupationDocs(s, o) : ~s[d].available

\* the latest assigned_at among the occupation's instances, else current_time
SetMax(S) == CHOOSE x \in S : \A y \in S : y <= x
DepletedAt(s, o, current_time) ==
    LET assigned == {s[d].assigned_at[1] :
                        d \in {e \in OccupationDocs(s, o) : s[e].assigned_at # NoTime}}
    IN  IF assigned = {} THEN current_time ELSE SetMax(assigned)

UnavailableEntries(s, current_time) ==
    {[occupation_id |-> o, depleted_at |-> DepletedAt(s, o, current_time)] :
        o \in {x \in AllOccupationIds(s) : NoneAvailable(s, x)}}

\* list.sort(key=depleted_at, reverse=True) of entries collected in the
\* iteration order of a set: any order with depleted_at not increasing
NewestFirst(entries) ==
    {l \in [1..Cardinality(entries) -> entries] :
        /\ \A i, j \in DOMAIN l : i # j => l[i] # l[j]
        /\ \A i, j \in DOMAIN l : i < j => l[i].depleted_at >= l[j].depleted_at}

\* sorted(data, key=occupation_id)
Alphabetical(l) ==
    CHOOSE q \in [DOMAIN l -> {l[k] : k \in DOMAIN l}] :
        /\ \A i, j \in DOMAIN q : i # j => q[i] # q[j]
        /\ \A i, j \in DOMAIN q :
              i < j => OccRank(q[i].occupation_id) <= OccRank(q[j].occupation_id)

Sorted(l, sort) == IF FormGet(sort, "chronological") = "chronological" THEN l ELSE Alphabetical(l)

ListUnavailableOccupations(a) ==
    /\ LET cache == unavailable_occupations_cache
           cache_duration == IF a.cache_duration = <<>> THEN cache.cache_duration
                             ELSE a.cache_duration[1]
           answer == [op |-> "list_unavailable_occupations", args |-> a, status |-> 200,
                      unavailable_occupations |-> <<>>, cached |-> FALSE,
                      last_updated |-> now, cache_expires |-> now + cache_duration]
       IN  IF /\ ~CacheExpired(cache.last_updated, now, cache_duration)
              /\ ~ForceRefresh(a.force_refresh)
              /\ cache.data # <<>>
           THEN /\ unavailable_occupations_cache' =
                       [cache EXCEPT !.cache_duration = cache_duration]
                /\ resp' = [answer EXCEPT
                               !.unavailable_occupations = Sorted(cache.data, a.sort),
                               !.cached = TRUE,
                               !.last_updated = cache.last_updated[1],
                               !.cache_expires = cache.last_updated[1] + cache_duration]
                /\ refreshed' = refreshed
           ELSE \E fresh \in NewestFirst(UnavailableEntries(store, now)) :
                /\ unavailable_occupations_cache' =
                       [data |-> fresh, last_updated |-> At(now),
                        cache_duration |-> cache_duration]
                /\ resp' = [answer EXCEPT
                               !.unavailable_occupations = Sorted(fresh, a.sort)]
                /\ refreshed' = Depleted(store)
    /\ UNCHANGED <<store, store0, now, req, otherThanFs>>

\* a minute passes
Tick ==
    /\ now < MaxTime
    /\ now' = now + 1
    /\ UNCHANGED <<store, store0, refreshed, unavailable_occupations_cache, req, resp, otherThanFs>>

\* get_task_urls answered without another request in between
GetTaskUrls(p) ==
    /\ LET found == Matches(store, p.task_id)
           answer == [op |-> "get_task_urls", args |-> p, status |-> 200, body |-> NoBody]
       IN  IF Falsy(p.task_id)
           THEN resp' = [answer EXCEPT !.status = 400] /\ store' = store
           ELSE IF found = {}
           THEN resp' = [answer EXCEPT !.status = 404] /\ store' = store
           ELSE /\ resp' = [answer EXCEPT
                               !.body = ResponseData(FirstOf(found), store[FirstOf(found)])]
                /\ store' = [store EXCEPT ![FirstOf(found)] = MarkUnavailable(@, now)]
    /\ UNCHANGED <<store0, refreshed, unavailable_occupations_cache, now, req, otherThanFs>>

(***************************************************************************)
(* SQLite service: GET /get_task                                           *)
(***************************************************************************)
InstanceIds == 1..NumInstances
Rounds == 1..MaxRound
Occupations == {"engineer"}
NumModelSlots == 5

\* the rows load_data inserts for a payload of two tasks of one occupation,
\* instance i belonging to task 1 or 2 in turn, with i model responses;
\* the task_id query parameter is text, compared by column affinity
SqlTaskIds == <<"1", "2">>
LoadedTasks ==
    {[id |-> k, task_id |-> SqlTaskIds[k], occupation |-> "engineer"] : k \in 1..Len(SqlTaskIds)}
SqlTaskOf(i) == ((i - 1) % Len(SqlTaskIds)) + 1
LoadedInstances ==
    [i \in InstanceIds |->
        [task_id |-> SqlTaskOf(i), instance_number |-> (i + 1) \div Len(SqlTaskIds),
         pdf_url |-> <<"tasks", i>>, is_assigned |-> FALSE, is_completed |-> FALSE,
         assigned_round |-> 0]]
LoadedResponses ==
    [i \in InstanceIds |->
        [m \in 1..(IF i < NumModelSlots THEN i ELSE NumModelSlots) |-> <<"responses", i, m>>]]

SqlParams ==
    {[task_id |-> t, occupation |-> o, round_id |-> n] :
        t \in {"1", "2", None}, o \in Occupations \cup {None}, n \in Rounds}

SqlNoBody == [task_instance_url |-> <<>>, model_urls |-> <<>>]
SqlIdleReq ==
    [pc |-> "idle", task_id |-> None, occupation |-> None, round_id |-> 0,
     instance_id |-> 0, status |-> 0, body |-> SqlNoBody]

\* SELECT id FROM tasks WHERE task_id = ? AND occupation = ?
TaskRows(t, o) == {row \in tasks : row.task_id = t /\ row.occupation = o}

\* WHERE task_id = ? AND ((is_assigned = FALSE) OR
\*                        (is_completed = FALSE AND assigned_round < ?))
Candidates(task_db_id, round_id) ==
    {i \in DOMAIN task_instances :
        /\ task_instances[i].task_id = task_db_id
        /\ \/ task_instances[i].is_assigned = FALSE
           \/ /\ task_instances[i].is_completed = FALSE
              /\ task_instances[i].assigned_round < round_id}

\* ORDER BY instance_number ASC LIMIT 1
LowestNumbered(C) ==
    CHOOSE i \in C :
        \A j \in C : task_instances[i].instance_number <= task_instances[j].instance_number

\* random.sample(all_models, 5) when there are more than 5, else all of
\* them padded with None (the empty url) to 5
Injective(f) == \A a, b \in DOMAIN f : a # b => f[a] # f[b]
SampleWithRepeats(all_models) ==
    IF Len(all_models) > NumModelSlots
    THEN [1..NumModelSlots -> {all_models[k] : k \in 1..Len(all_models)}]
    ELSE {[k \in 1..NumModelSlots |->
              IF k <= Len(all_models) THEN all_models[k] ELSE <<>>]}
SelectedModels(all_models) ==
    IF Len(all_models) > NumModelSlots
    THEN {sel \in [1..NumModelSlots -> {all_models[k] : k \in 1..Len(all_models)}] :
              Injective(sel)}
    ELSE {[k \in 1..NumModelSlots |->
              IF k <= Len(all_models) THEN all_models[k] ELSE <<>>]}

\* get_task up to and including the SELECT of the candidate instance; the
\* SELECTs run in autocommit mode, before the connection opens a transaction.
GetTaskSelect(r, p) ==
    /\ sreq[r].pc = "idle"
    /\ LET asked == [SqlIdleReq EXCEPT !.task_id = p.task_id,
                          !.occupation = p.occupation, !.round_id = p.round_id]
           rows == TaskRows(p.task_id, p.occupation)
           found == Candidates((CHOOSE row \in rows : TRUE).id, p.round_id)
       IN  sreq' = [sreq EXCEPT ![r] =
                IF p.task_id = None \/ p.occupation = None
                THEN [asked EXCEPT !.pc = "done", !.status = 400]
                ELSE IF rows = {} \/ found = {}
                THEN [asked EXCEPT !.pc = "done", !.status = 404]
                ELSE [asked EXCEPT !.pc = "selected",
                          !.instance_id = LowestNumbered(found),
                          !.body = [SqlNoBody EXCEPT !.task_instance_url =
                                       task_instances[LowestNumbered(found)].pdf_url]]]
    /\ UNCHANGED <<tasks, task_instances, model_responses, sresp, otherThanSql>>

\* UPDATE ... WHERE id = ? of the instance selected before, the SELECT of its
\* model responses and the commit: one write transaction.
GetTaskAssign(r) ==
    /\ sreq[r].pc = "selected"
    /\ task_instances' = [task_instances EXCEPT ![sreq[r].instance_id] =
            [@ EXCEPT !.is_assigned = TRUE, !.assigned_round = sreq[r].round_id]]
    /\ \E sel \in SelectedModels(model_responses[sreq[r].instance_id]) :
           sreq' = [sreq EXCEPT ![r].pc = "done", ![r].status = 200,
                                ![r].body.model_urls = sel]
    /\ UNCHANGED <<tasks, model_responses, sresp, otherThanSql>>

\* no script has run yet
NoCall == [pc |-> "idle"]
ScriptsIdle ==
    /\ latin = NoCall /\ decision = NoCall /\ plan = NoCall
    /\ upload = NoCall /\ batch = NoCall /\ sheet = NoCall /\ updater = NoCall

\* the database after init_db, no request yet
SqlIdle ==
    /\ tasks = {}
    /\ task_instances = <<>>
    /\ model_responses = <<>>
    /\ sreq = [r \in Requests |-> SqlIdleReq]
    /\ sresp = NoResp

\* the collection before any import, no request yet
FsIdle ==
    /\ store = <<>>
    /\ store0 = <<>>
    /\ refreshed = {}
    /\ unavailable_occupations_cache = EmptyCache
    /\ now = 0
    /\ req = [r \in Requests |-> IdleReq]
    /\ resp = NoResp

\* the database after load_data, no request yet
InitSqlLoaded ==
    /\ tasks = LoadedTasks
    /\ task_instances = LoadedInstances
    /\ model_responses = LoadedResponses
    /\ sreq = [r \in Requests |-> SqlIdleReq]
    /\ sresp = NoResp
    /\ FsIdle
    /\ ScriptsIdle

(***************************************************************************)
(* SpecSqlGet: get_task requests only, interleaved freely.                 *)
(***************************************************************************)
NextSqlGet ==
    \/ \E r \in Requests, p \in SqlParams : GetTaskSelect(r, p)
    \/ \E r \in Requests : GetTaskAssign(r)

SpecSqlGet == InitSqlLoaded /\ [][NextSqlGet]_vars

\* The service with a loaded collection and no request yet.
InitLoaded ==
    /\ store \in LoadedStores
    /\ store0 = store
    /\ refreshed = {}
    /\ unavailable_occupations_cache = EmptyCache
    /\ now = 0
    /\ req = [r \in Requests |-> IdleReq]
    /\ resp = NoResp
    /\ SqlIdle
    /\ ScriptsIdle

(***************************************************************************)
(* SpecGet: get_task_urls requests only, interleaved freely.               *)
(***************************************************************************)
NextGet ==
    \/ \E r \in Requests, p \in GetParams : GetTaskUrlsQuery(r, p)
    \/ \E r \in Requests : GetTaskUrlsUpdate(r)

SpecGet == InitLoaded /\ [][NextGet]_vars

(***************************************************************************)
(* SpecSeq: get_task_urls requests only, one at a time.                    *)
(***************************************************************************)
NoneInFlight == \A q \in Requests : req[q].pc # "queried"

NextSeq ==
    \/ \E r \in Requests, p \in GetParams : NoneInFlight /\ GetTaskUrlsQuery(r, p)
    \/ \E r \in Requests : GetTaskUrlsUpdate(r)

SpecSeq == InitLoaded /\ [][NextSeq]_vars

(***************************************************************************)
(* SpecAvail: one update_task_availability call on any collection the      *)
(* service can hold (store0 keeps the collection as it was before).        *)
(***************************************************************************)
InitServed ==
    /\ store \in ServedStores
    /\ store0 = store
    /\ refreshed = {}
    /\ unavailable_occupations_cache = EmptyCache
    /\ now = 0
    /\ req = [r \in Requests |-> IdleReq]
    /\ resp = NoResp
    /\ SqlIdle
    /\ ScriptsIdle

NextAvail ==
    \E data \in UpdatePayloads : resp.op = "none" /\ UpdateTaskAvailability(data)

SpecAvail == InitServed /\ [][NextAvail]_vars

(***************************************************************************)
(* SpecImport: one import_data call on any collection the service can hold.*)
(***************************************************************************)
NextImport ==
    \E q \in ImportRequests : resp.op = "none" /\ ImportData(q)

SpecImport == InitServed /\ [][NextImport]_vars

(***************************************************************************)
(* SpecOps: the Firestore service answering one request after another,     *)
(* from the empty collection, all within the same minute.                  *)
(***************************************************************************)
Init == FsIdle /\ SqlIdle /\ ScriptsIdle

\* requests by task_id, and one without
TaskRequests == {p \in GetParams : p.occupation_id = None /\ p.task_id # ""}
                    \cup {[task_id |-> None, occupation_id |-> None]}
\* one-item updates of existing instances
SingleUpdates ==
    {[has_task_instances |-> TRUE, task_instances |-> <<it>>] :
        it \in {x \in UpdateItems : x.keys = BothKeys /\ x.task_instance_id \in DocIds}}
\* json imports of files without an "available" column: every instance,
\* and the instances of task1 alone after clearing
FileOf(S) == [d \in S |-> [has_available |-> FALSE, available |-> FALSE]]
PlainImports ==
    {[file |-> [kind |-> "rows", rows |-> FileOf(DocIds)], format |-> "json",
      clear_existing |-> None],
     [file |-> [kind |-> "rows", rows |-> FileOf({d \in DocIds : TaskOf(d) = "task1"})],
      format |-> "json", clear_existing |-> "true"]}

NextOps ==
    \/ \E p \in TaskRequests : GetTaskUrls(p)
    \/ \E data \in SingleUpdates : UpdateTaskAvailability(data)
    \/ \E q \in PlainImports : ImportData(q)
    \/ \E a \in ListParams : ListUnavailableOccupations(a)

SpecOps == Init /\ [][NextOps]_vars

(***************************************************************************)
(* SpecCache: the cache over time: imports, get_task_urls and              *)
(* list_unavailable_occupations requests while minutes pass.               *)
(***************************************************************************)
NextCache ==
    \/ \E p \in TaskRequests : GetTaskUrls(p)
    \/ \E q \in PlainImports : ImportData(q)
    \/ \E a \in ListParams : ListUnavailableOccupations(a)
    \/ Tick

SpecCache == Init /\ [][NextCache]_vars

(***************************************************************************)
(* SQLite service, one request at a time: get_task, update_completion,     *)
(* load_data, reset_assignments                                            *)
(***************************************************************************)
SqlRounds == 0..MaxRound
MissingInstanceId == NumInstances + 1

\* get_task answered without another request in between
GetTask(p) ==
    /\ LET rows == TaskRows(p.task_id, p.occupation)
           found == Candidates((CHOOSE row \in rows : TRUE).id, p.round_id)
           answer == [op |-> "get_task", args |-> p.round_id, status |-> 200,
                      instance_id |-> 0, body |-> SqlNoBody]
       IN  IF p.task_id = None \/ p.occupation = None
           THEN /\ sresp' = [answer EXCEPT !.status = 400]
                /\ task_instances' = task_instances
           ELSE IF rows = {} \/ found = {}
           THEN /\ sresp' = [answer EXCEPT !.status = 404]
                /\ task_instances' = task_instances
           ELSE /\ task_instances' = [task_instances EXCEPT ![LowestNumbered(found)] =
                       [@ EXCEPT !.is_assigned = TRUE, !.assigned_round = p.round_id]]
                /\ \E sel \in SelectedModels(model_responses[LowestNumbered(found)]) :
                       sresp' = [answer EXCEPT
                           !.instance_id = LowestNumbered(found),
                           !.body = [task_instance_url |->
                                         task_instances[LowestNumbered(found)].pdf_url,
                                     model_urls |-> sel]]
    /\ UNCHANGED <<tasks, model_responses, sreq, otherThanSql>>

\* JSON bodies of update_completion: one without its keys, and the lists of
\* up to MaxItems instance ids with a round_id
CompletionPayloads ==
    {[has_keys |-> FALSE, completed_instances |-> <<>>, round_id |-> 0]}
      \cup {[has_keys |-> TRUE, completed_instances |-> l, round_id |-> n] :
               l \in SeqsUpTo(InstanceIds \cup {MissingInstanceId}, MaxItems),
               n \in SqlRounds}

\* UPDATE task_instances SET is_completed = TRUE WHERE id = ? AND assigned_round = ?
MarkCompleted(rows, instance_id, round_id) ==
    [i \in DOMAIN rows |->
        IF i = instance_id /\ rows[i].assigned_round = round_id
        THEN [rows[i] EXCEPT !.is_completed = TRUE] ELSE rows[i]]

RECURSIVE MarkAllCompleted(_, _, _)
MarkAllCompleted(rows, ids, round_id) ==
    IF ids = <<>> THEN rows
    ELSE MarkAllCompleted(MarkCompleted(rows, Head(ids), round_id), Tail(ids), round_id)

UpdateCompletion(data) ==
    /\ LET answer == [op |-> "update_completion", args |-> data.has_keys, status |-> 200,
                      count |-> Len(data.completed_instances)]
       IN  IF ~data.has_keys
           THEN /\ sresp' = [answer EXCEPT !.status = 400]
                /\ task_instances' = task_instances
           ELSE /\ sresp' = answer
                /\ task_instances' =
                       MarkAllCompleted(task_instances, data.completed_instances,
                                        data.round_id)
    /\ UNCHANGED <<tasks, model_responses, sreq, otherThanSql>>

\* JSON bodies of reset_assignments: none, or with or without retain_completion
ResetPayloads == {"no body", "no key", "true", "false"}
RetainCompletion(data) == data # "false"

\* an UPDATE without the WHERE is_completed = FALSE clause
ResetAssignmentOnly(row, retain_completion) ==
    IF retain_completion
    THEN [row EXCEPT !.is_assigned = FALSE, !.assigned_round = 0]
    ELSE [row EXCEPT !.is_assigned = FALSE, !.is_completed = FALSE, !.assigned_round = 0]
\* the two UPDATE statements of reset_assignments
ResetRow(row, retain_completion) ==
    IF retain_completion
    THEN IF row.is_completed = FALSE
         THEN [row EXCEPT !.is_assigned = FALSE, !.assigned_round = 0]
         ELSE row
    ELSE [row EXCEPT !.is_assigned = FALSE, !.is_completed = FALSE, !.assigned_round = 0]

\* cursor.rowcount: the rows the UPDATE matched
ResetCount(rows, retain_completion) ==
    Cardinality({i \in DOMAIN rows : ~retain_completion \/ rows[i].is_completed = FALSE})

ResetAssignments(data) ==
    /\ task_instances' =
           [i \in DOMAIN task_instances |->
               ResetRow(task_instances[i], RetainCompletion(data))]
    /\ sresp' = [op |-> "reset_assignments", args |-> RetainCompletion(data), status |-> 200,
                 count |-> ResetCount(task_instances, RetainCompletion(data))]
    /\ UNCHANGED <<tasks, model_responses, sreq, otherThanSql>>

\* A load_data payload for the instances in DOMAIN c: instance i is an
\* instance of task 1 or 2 in turn and comes with c[i] model responses,
\* numbered from 1.
PayloadInstance(i, n) ==
    [instance_number |-> (i + 1) \div Len(SqlTaskIds), pdf_url |-> <<"tasks", i>>,
     model_responses |-> [m \in 1..n |-> <<"responses", i, m>>]]
RECURSIVE SeqOf(_)
SeqOf(S) ==
    IF S = {} THEN <<>>
    ELSE LET least == CHOOSE x \in S : \A y \in S : x <= y
         IN  <<least>> \o SeqOf(S \ {least})
InstancesOf(c, k) == SeqOf({i \in DOMAIN c : SqlTaskOf(i) = k})
LoadPayload(c) ==
    [has_tasks |-> TRUE,
     tasks |-> [k \in 1..Len(SqlTaskIds) |->
                   [task_id |-> SqlTaskIds[k], occupation |-> "engineer",
                    instances |-> [n \in 1..Len(InstancesOf(c, k)) |->
                        PayloadInstance(InstancesOf(c, k)[n], c[InstancesOf(c, k)[n]])]]]]
NoTasksPayload == [has_tasks |-> FALSE, tasks |-> <<>>]

\* the three tables as one value
Database == [tasks |-> tasks, task_instances |-> task_instances,
             model_responses |-> model_responses]

\* INSERT OR IGNORE INTO tasks; ids are handed out in insertion order
InsertTask(db, task) ==
    IF \E row \in db.tasks : row.task_id = task.task_id /\ row.occupation = task.occupation
    THEN db
    ELSE [db EXCEPT !.tasks = @ \cup {[id |-> Cardinality(@) + 1, task_id |-> task.task_id,
                                      occupation |-> task.occupation]}]

\* INSERT OR IGNORE INTO task_instances, then INSERT OR IGNORE of each model
\* response whose model_number the instance does not have yet
InsertInstance(db, task_db_id, instance) ==
    LET existing == {i \in DOMAIN db.task_instances :
                        /\ db.task_instances[i].task_id = task_db_id
                        /\ db.task_instances[i].instance_number = instance.instance_number}
        old == IF existing = {} THEN <<>>
               ELSE db.model_responses[CHOOSE i \in existing : TRUE]
        all == old \o SubSeq(instance.model_responses, Len(old) + 1,
                             Len(instance.model_responses))
    IN  IF existing = {}
        THEN [db EXCEPT
                 !.task_instances = Append(@,
                     [task_id |-> task_db_id, instance_number |-> instance.instance_number,
                      pdf_url |-> instance.pdf_url, is_assigned |-> FALSE,
                      is_completed |-> FALSE, assigned_round |-> 0]),
                 !.model_responses = Append(@, all)]
        ELSE [db EXCEPT !.model_responses[CHOOSE i \in existing : TRUE] = all]

RECURSIVE InsertInstances(_, _, _)
InsertInstances(db, task_db_id, instances) ==
    IF instances = <<>> THEN db
    ELSE InsertInstances(InsertInstance(db, task_db_id, Head(instances)), task_db_id,
                         Tail(instances))

RECURSIVE InsertTasks(_, _)
InsertTasks(db, payload) ==
    IF payload = <<>> THEN db
    ELSE LET withTask == InsertTask(db, Head(payload))
             task_db_id == (CHOOSE row \in withTask.tasks :
                               /\ row.task_id = Head(payload).task_id
                               /\ row.occupation = Head(payload).occupation).id
         IN  InsertTasks(InsertInstances(withTask, task_db_id, Head(payload).instances),
                         Tail(payload))

LoadData(data) ==
    /\ LET loaded == InsertTasks(Database, data.tasks)
           answer == [op |-> "load_data", args |-> data.has_tasks, status |-> 200,
                      count |-> Len(data.tasks)]
       IN  IF ~data.has_tasks
           THEN /\ sresp' = [answer EXCEPT !.status = 400]
                /\ UNCHANGED <<tasks, task_instances, model_responses>>
           ELSE /\ sresp' = answer
                /\ tasks' = loaded.tasks
                /\ task_instances' = loaded.task_instances
                /\ model_responses' = loaded.model_responses
    /\ UNCHANGED <<sreq, otherThanSql>>

(***************************************************************************)
(* SpecSql: the SQLite service answering one request after another, from   *)
(* the empty database.                                                     *)
(***************************************************************************)
SqlRequests ==
    {p \in [task_id : {"1", "2"}, occupation : Occupations, round_id : SqlRounds] : TRUE}
        \cup {[task_id |-> None, occupation |-> "engineer", round_id |-> 1]}
\* every instance with as many model responses as its number, and the
\* first instance alone with two
SqlLoads ==
    {LoadPayload([i \in InstanceIds |-> i]), LoadPayload([i \in {1} |-> 2]), NoTasksPayload}
\* update_completion bodies naming at most one instance
SqlCompletions == {data \in CompletionPayloads : Len(data.completed_instances) <= 1}

NextSql ==
    \/ \E p \in SqlRequests : GetTask(p)
    \/ \E data \in SqlCompletions : UpdateCompletion(data)
    \/ \E data \in ResetPayloads : ResetAssignments(data)
    \/ \E data \in SqlLoads : LoadData(data)

SpecSql == Init /\ [][NextSql]_vars

(***************************************************************************)
(* SpecSqlModels: get_task requests of round 1, one after another, on      *)
(* instances with no, three or six model responses.                        *)
(***************************************************************************)
ModelLoads == {LoadPayload([i \in InstanceIds |-> 3 * ((i - 1) % 3)]), NoTasksPayload}
ModelRequests == {p \in SqlRequests : p.round_id = 1}

NextSqlModels ==
    \/ \E p \in ModelRequests : GetTask(p)
    \/ \E data \in ModelLoads : LoadData(data)

SpecSqlModels == Init /\ [][NextSqlModels]_vars

(***************************************************************************)
(* PDF_upload.py: generate_latin_square_orders, verify_latin_square_balance*)
(***************************************************************************)
\* list(MODEL_NAMES.values())
ModelNames == <<"GPT_4o_2025", "Claude_3_Opus", "Gemini_Ultra", "GPT_4_Turbo", "Claude_3_Sonnet">>

ReversedSquares ==
    <<<<4, 3, 2, 1, 0>>, <<0, 4, 3, 2, 1>>, <<1, 0, 4, 3, 2>>, <<2, 1, 0, 4, 3>>,
      <<3, 2, 1, 0, 4>>>>
BaseSquares ==
    <<<<0, 1, 2, 3, 4>>, <<1, 2, 3, 4, 0>>, <<2, 3, 4, 0, 1>>, <<3, 4, 0, 1, 2>>,
      <<4, 0, 1, 2, 3>>>>

\* order = [model_names[i] for i in square_row], for each row of the square
LatinSquareOrders ==
    [r \in DOMAIN BaseSquares |->
        [k \in DOMAIN BaseSquares[r] |-> ModelNames[BaseSquares[r][k] + 1]]]

\* random.shuffle: the list in any order
Shuffles(l) == {[k \in DOMAIN l |-> l[perm[k]]] : perm \in Permutations(DOMAIN l)}

\* square_index = i % len(latin_square_orders), for the 0-based row i
FirstFourOnly(i, len) == i % (len - 1)
SquareIndex(i, len) == i % len

\* result_orders for n_rows rows
ResultOrders(shuffled, n_rows) ==
    [i \in 1..n_rows |-> shuffled[SquareIndex(i - 1, Len(shuffled)) + 1]]

\* ','.join(order) and order_string.split(','), a string being the sequence
\* of its pieces: names and separators
RECURSIVE Join(_)
Join(order) ==
    IF Len(order) <= 1 THEN order
    ELSE <<Head(order), ",">> \o Join(Tail(order))
Split(order_string) == SelectSeq(order_string, LAMBDA piece : piece # ",")

\* position_counts[model][position] of verify_latin_square_balance
PositionCount(order_strings, model, position) ==
    Cardinality({i \in DOMAIN order_strings :
                    /\ position \in DOMAIN Split(order_strings[i])
                    /\ Split(order_strings[i])[position] = model})

\* abs(pos_count - total_rows / 5) > tolerance never holds; in fifths
VerifyLatinSquareBalance(order_strings, model_names) ==
    \A m \in DOMAIN model_names, position \in 1..5 :
        LET fifths == 5 * PositionCount(order_strings, model_names[m], position)
                          - Len(order_strings)
        IN  ~((IF fifths < 0 THEN -fifths ELSE fifths) > 5 * 1)

\* generate_latin_square_orders(n_models, n_rows), and the balance check
\* that apply_model_randomization runs on its orders
GenerateLatinSquareOrders(n_models, n_rows) ==
    /\ IF n_models # 5
       THEN latin' = [pc |-> "raised", n_models |-> n_models, n_rows |-> n_rows,
                      result_orders |-> <<>>, balanced |-> FALSE]
       ELSE \E shuffled \in Shuffles(LatinSquareOrders) :
                LET result_orders == ResultOrders(shuffled, n_rows)
                IN  latin' = [pc |-> "returned", n_models |-> n_models, n_rows |-> n_rows,
                              result_orders |-> result_orders,
                              balanced |-> VerifyLatinSquareBalance(
                                  [i \in DOMAIN result_orders |-> Join(result_orders[i])],
                                  ModelNames)]
    /\ UNCHANGED otherThanLatin

(***************************************************************************)
(* SpecLatin: one call of generate_latin_square_orders.                    *)
(***************************************************************************)
RowCounts == 0..MaxRows

NextLatin ==
    /\ latin.pc = "idle"
    /\ \E n_models \in {4, 5, 6}, n_rows \in RowCounts :
           GenerateLatinSquareOrders(n_models, n_rows)

SpecLatin == Init /\ [][NextLatin]_vars

(***************************************************************************)
(* completion_codes_config.py                                              *)
(***************************************************************************)
COMPLETION_CODES ==
    [APPROVED |-> "C1G9PC0D", SCREENED_OUT |-> "C1NFUEQ1",
     FAILED_ATTENTION |-> "C1M8R1Y4", NO_CONSENT |-> "COISODYI"]

\* the flag columns determine_completion_code reads
FlagNames ==
    {"no_consent", "failed_two_plus_attention_checks", "did_not_understand_tasks",
     "occupation_not_confirmed", "insufficient_work_experience", "screened_out",
     "incomplete_survey_other_reasons", "completed_survey", "approved"}
\* a cell of the CSV, None when the row has no such column
FlagValues == {"TRUE", " true ", " false ", None}
CsvRows == [FlagNames -> FlagValues]

\* str.strip() and str.upper() on the cell values used here
KeepSpaces(x) == x
Strip(x) ==
    CASE x = " true " -> "true"
      [] x = " false " -> "false"
      [] x = "APPROVED " -> "APPROVED"
      [] OTHER -> x
Upper(x) ==
    CASE x = "true" -> "TRUE"
      [] x = "false" -> "FALSE"
      [] x = " true " -> " TRUE "
      [] x = " false " -> " FALSE "
      [] OTHER -> x

\* csv_row.get(flag, '').strip().upper()
Flag(csv_row, flag) == Upper(Strip(FormGet(csv_row[flag], "")))

\* determine_completion_code: the code, and the rule that gave the reason
DetermineCompletionCode(csv_row) ==
    IF Flag(csv_row, "no_consent") = "TRUE"
    THEN [code |-> COMPLETION_CODES.NO_CONSENT, rule |-> "no_consent"]
    ELSE IF Flag(csv_row, "failed_two_plus_attention_checks") = "TRUE"
    THEN [code |-> COMPLETION_CODES.FAILED_ATTENTION,
          rule |-> "failed_two_plus_attention_checks"]
    ELSE IF Flag(csv_row, "did_not_understand_tasks") = "TRUE"
    THEN [code |-> COMPLETION_CODES.SCREENED_OUT, rule |-> "did_not_understand_tasks"]
    ELSE IF Flag(csv_row, "occupation_not_confirmed") = "TRUE"
    THEN [code |-> COMPLETION_CODES.SCREENED_OUT, rule |-> "occupation_not_confirmed"]
    ELSE IF Flag(csv_row, "insufficient_work_experience") = "TRUE"
    THEN [code |-> COMPLETION_CODES.SCREENED_OUT, rule |-> "insufficient_work_experience"]
    ELSE IF Flag(csv_row, "screened_out") = "TRUE"
    THEN [code |-> COMPLETION_CODES.SCREENED_OUT, rule |-> "screened_out"]
    ELSE IF Flag(csv_row, "incomplete_survey_other_reasons") = "TRUE"
    THEN [code |-> COMPLETION_CODES.FAILED_ATTENTION,
          rule |-> "incomplete_survey_other_reasons"]
    ELSE IF Flag(csv_row, "completed_survey") = "TRUE" /\ Flag(csv_row, "approved") # "FALSE"
    THEN [code |-> COMPLETION_CODES.APPROVED, rule |-> "completed_survey"]
    ELSE [code |-> None, rule |-> "manual review"]

GetApiActionForCompletionCode(completion_code) ==
    IF completion_code = COMPLETION_CODES.APPROVED THEN "SKIP"
    ELSE IF completion_code = COMPLETION_CODES.SCREENED_OUT THEN "SCREEN_OUT"
    ELSE IF completion_code \in {COMPLETION_CODES.FAILED_ATTENTION,
                                 COMPLETION_CODES.NO_CONSENT} THEN "REJECT"
    ELSE "MANUAL_REVIEW"

\* a call of determine_completion_code on some row
Determine ==
    /\ decision.pc = "idle"
    /\ \E csv_row \in CsvRows :
           decision' = [pc |-> "determined", csv_row |-> csv_row,
                        completion_code |-> DetermineCompletionCode(csv_row).code,
                        rule |-> DetermineCompletionCode(csv_row).rule]
    /\ UNCHANGED otherThanDecision

\* a call of get_api_action_for_completion_code on the code just determined
ActOnDecision ==
    /\ decision.pc = "determined"
    /\ decision' = [pc |-> "action", completion_code |-> decision.completion_code,
                    api_action |-> GetApiActionForCompletionCode(decision.completion_code)]
    /\ UNCHANGED otherThanDecision

(***************************************************************************)
(* SpecCodes: a completion code is determined from a CSV row and turned    *)
(* into an API action.                                                     *)
(***************************************************************************)
NextCodes ==
    \/ Determine
    \/ ActOnDecision

SpecCodes == Init /\ [][NextCodes]_vars

(***************************************************************************)
(* generate_review_plan.py: generate_review_plan                           *)
(***************************************************************************)
ParticipantIds == {"P1", "P2"}
\* study_code of a submission: a configured code, a name the script
\* compares with, or none
StudyCodes ==
    {COMPLETION_CODES[name] : name \in DOMAIN COMPLETION_CODES}
        \cup {"COMPLETION_CODE_APPROVED", "FAILED_ATTENTION", "NO_CONSENT", ""}
Submissions == [participant_id : ParticipantIds, study_code : StudyCodes]
\* the status column of the CSV
LocalStatuses == {"APPROVED", "APPROVED ", "REJECTED", "SCREENED-OUT", "PENDING", ""}
\* load_participant_flags: prolific_id -> row, for at least one participant
ParticipantData ==
    UNION {[S -> [status : LocalStatuses]] : S \in SUBSET ParticipantIds \ {{}}}

\* the condition of lines 141-143
CodeMatchesStatus(actual_completion_code, local_status) ==
    \/ /\ actual_completion_code \in {"C1DQRLH1", "COMPLETION_CODE_APPROVED"}
       /\ local_status = "APPROVED"
    \/ /\ actual_completion_code \in {"TIMEOUT", "FAILED_ATTENTION"}
       /\ local_status = "REJECTED"
    \/ /\ actual_completion_code \in {"NO_CONSENT", "SCREENED_OUT"}
       /\ local_status \in {"SCREENED-OUT", "REJECTED"}

\* proposed_action from local_status, with the suffix of the CSV_ONLY branch;
\* a status that is none of the three keeps the default
ActionForStatus(local_status, suffix) ==
    CASE local_status = "APPROVED" -> "APPROVE" \o suffix
      [] local_status = "REJECTED" -> "REJECT" \o suffix
      [] local_status = "SCREENED-OUT" -> "SCREEN_OUT" \o suffix
      [] OTHER -> "NO_ACTION_NO_CSV_DATA"

\* one iteration of the loop: the row appended to review_plan
ReviewRow(sub, participant_data) ==
    LET actual_completion_code == sub.study_code
        found == sub.participant_id \in DOMAIN participant_data
        local_status == IF found THEN Strip(participant_data[sub.participant_id].status)
                        ELSE ""
        row == [prolific_participant_id |-> sub.participant_id,
                actual_completion_code |-> actual_completion_code,
                local_status |-> local_status,
                validation_status |-> "NO_CSV_DATA",
                proposed_action |-> "NO_ACTION_NO_CSV_DATA"]
    IN  IF found
        THEN IF actual_completion_code # "" /\ local_status # ""
             THEN IF CodeMatchesStatus(actual_completion_code, local_status)
                  THEN [row EXCEPT !.validation_status = "MATCH",
                                   !.proposed_action = ActionForStatus(local_status, "")]
                  ELSE [row EXCEPT !.validation_status = "MISMATCH",
                                   !.proposed_action = "MANUAL_REVIEW_MISMATCH"]
             ELSE IF actual_completion_code # "" /\ local_status = ""
             THEN [row EXCEPT !.validation_status = "CODE_ONLY",
                              !.proposed_action = "MANUAL_REVIEW_NO_LOCAL_DECISION"]
             ELSE IF actual_completion_code = "" /\ local_status # ""
             THEN [row EXCEPT !.validation_status = "CSV_ONLY",
                              !.proposed_action = ActionForStatus(local_status, "_NO_CODE")]
             ELSE [row EXCEPT !.validation_status = "NEITHER",
                              !.proposed_action = "MANUAL_REVIEW_NO_DATA"]
        ELSE IF actual_completion_code # ""
             THEN [row EXCEPT !.proposed_action = "APPROVE_NO_LOCAL_DATA"]
             ELSE [row EXCEPT !.proposed_action = "MANUAL_REVIEW_NO_LOCAL_DATA"]

\* the key of validation_summary that the iteration for sub increments, ""
\* when it increments none
Counted(sub, participant_data) ==
    LET actual_completion_code == sub.study_code
        local_status == Strip(participant_data[sub.participant_id].status)
    IN  IF sub.participant_id \notin DOMAIN participant_data THEN ""
        ELSE IF actual_completion_code # "" /\ local_status # ""
        THEN IF CodeMatchesStatus(actual_completion_code, local_status)
             THEN "matches" ELSE "mismatches"
        ELSE IF actual_completion_code # "" /\ local_status = "" THEN "code_only"
        ELSE IF actual_completion_code = "" /\ local_status # "" THEN "csv_only"
        ELSE "neither"

\* validation_summary when the loop ends: how often each key was incremented
Tally(prolific_submissions, participant_data, key) ==
    Cardinality({i \in DOMAIN prolific_submissions :
                    Counted(prolific_submissions[i], participant_data) = key})
ValidationSummary(prolific_submissions, participant_data) ==
    [key \in {"matches", "mismatches", "csv_only", "code_only", "neither"} |->
        Tally(prolific_submissions, participant_data, key)]

GenerateReviewPlan(prolific_submissions, participant_data) ==
    /\ LET review_plan == [i \in DOMAIN prolific_submissions |->
                              ReviewRow(prolific_submissions[i], participant_data)]
       IN  plan' = [pc |-> "returned", prolific_submissions |-> prolific_submissions,
                    participant_data |-> participant_data,
                    review_plan |-> review_plan,
                    validation_summary |->
                        ValidationSummary(prolific_submissions, participant_data)]
    /\ UNCHANGED otherThanPlan

(***************************************************************************)
(* SpecPlan: one call of generate_review_plan.                             *)
(***************************************************************************)
NextPlan ==
    /\ plan.pc = "idle"
    /\ \E prolific_submissions \in SeqsUpTo(Submissions, MaxSubmissions),
          participant_data \in ParticipantData :
           GenerateReviewPlan(prolific_submissions, participant_data)

SpecPlan == Init /\ [][NextPlan]_vars

(***************************************************************************)
(* PDF_upload.py: upload_to_dropbox_async.  The two Dropbox calls of one   *)
(* attempt are blocking calls inside one try block, so an attempt is one   *)
(* step; the coroutine yields only in asyncio.sleep between attempts.      *)
(***************************************************************************)
MAX_CONCURRENT_UPLOADS == 20
MAX_RETRIES == 3
RETRY_DELAY == 1

\* filenames process_single_column builds: the Question's and a model's
UploadFilenames == {"task_001_01_1.pdf", "task_001_01_1_model=GPT_4o_2025.pdf"}

\* upload_path
UploadPath(filename) == <<"/Benchmark Storage ALL PDFS REORDERED 2-19/", filename>>

\* the exceptions the Dropbox SDK raises from either call
DropboxErrors == {"ApiError", "HttpError"}

\* what one pass through the try block can do: both calls succeed, or one
\* of them raises
AttemptOutcomes ==
    {[call |-> "return", error |-> None]}
        \cup [call : {"files_upload", "sharing_create_shared_link"}, error : DropboxErrors]

\* shared_link.url of the link created in the given attempt
SharedLinkUrl(upload_path, attempt) == [path |-> upload_path, attempt |-> attempt]

\* a retry that waits the same time after every failure
ConstantDelay(attempt) == RETRY_DELAY

\* wait_time
WaitTime(attempt) == RETRY_DELAY * (2 ^ attempt)

\* the call: the for loop is entered with attempt 0
UploadToDropboxAsync(filename) ==
    /\ upload.pc = "idle"
    /\ upload' = [pc |-> "try", filename |-> filename, attempt |-> 0, made |-> 0,
                  errors |-> <<>>, slept |-> <<>>, wait_time |-> 0,
                  result |-> <<>>, raised |-> None]
    /\ UNCHANGED otherThanUpload

\* one iteration of the loop up to its return, its raise or its sleep
Attempt ==
    /\ upload.pc = "try"
    /\ \E outcome \in AttemptOutcomes :
          LET made == upload.made + 1
              errors == Append(upload.errors, outcome)
          IN  upload' =
                  IF outcome.call = "return"
                  THEN [upload EXCEPT !.pc = "returned", !.made = made,
                            !.result = <<SharedLinkUrl(UploadPath(upload.filename),
                                                       upload.attempt)>>]
                  ELSE IF upload.attempt = MAX_RETRIES - 1
                  THEN [upload EXCEPT !.pc = "raised", !.made = made, !.errors = errors,
                            !.raised = outcome.error]
                  ELSE [upload EXCEPT !.pc = "sleep", !.made = made, !.errors = errors,
                            !.wait_time = WaitTime(upload.attempt)]
    /\ UNCHANGED otherThanUpload

\* asyncio.sleep(wait_time) is over: the loop takes its next value, and a
\* loop that has run out of values falls through to the implicit return None
Wake ==
    /\ upload.pc = "sleep"
    /\ upload' = [upload EXCEPT
                      !.pc = IF upload.attempt + 1 < MAX_RETRIES THEN "try" ELSE "returned",
                      !.attempt = upload.attempt + 1,
                      !.slept = Append(upload.slept, upload.wait_time)]
    /\ UNCHANGED otherThanUpload

NextUpload ==
    \/ \E filename \in UploadFilenames : UploadToDropboxAsync(filename)
    \/ Attempt
    \/ Wake

\* the event loop runs a coroutine that is ready, and a sleep ends
SpecUpload == Init /\ [][NextUpload]_vars /\ WF_vars(Attempt) /\ WF_vars(Wake)

(***************************************************************************)
(* PDF_upload.py: process_task_batch.  The event loop runs one coroutine   *)
(* at a time up to its next await; the rows of a batch differ only in how  *)
(* far they are, so the batch is kept as counts of rows per position.      *)
(***************************************************************************)
MaxTasks == 21
MaxInvocations == 42
MaxColumns == 6

\* the batches main passes: task_batch as its length and the number of
\* non-empty cells among Question, model1..model5 that precompute_ids put
\* in each row's columns_to_process
BatchShapes ==
    {shape \in [n_tasks : 1..MaxTasks, n_columns : 0..MaxColumns] :
        shape.n_tasks * shape.n_columns <= MaxInvocations}

\* no row is inside asyncio.gather(*tasks)
NoneGathering == [r \in 0..MaxColumns |-> 0]

\* the call: asyncio.gather(*batch_tasks) schedules one
\* process_task_with_semaphore coroutine per row; main's semaphore is free
\* between batches
ProcessTaskBatch(shape) ==
    /\ batch.pc = "idle"
    /\ batch' = [pc |-> "running", n_tasks |-> shape.n_tasks,
                 n_columns |-> shape.n_columns,
                 queued |-> shape.n_tasks, semaphore |-> MAX_CONCURRENT_UPLOADS,
                 scheduled |-> 0, gathering |-> NoneGathering, valid_results |-> 0]
    /\ UNCHANGED otherThanBatch

\* a row's coroutine enters async with semaphore, creates a
\* process_single_column coroutine per column and awaits their gather; with
\* no column the gather is done at once and the row returns without yielding
Acquire ==
    /\ batch.pc = "running"
    /\ batch.queued > 0
    /\ batch.semaphore > 0
    /\ batch' = IF batch.n_columns = 0
                THEN [batch EXCEPT !.queued = @ - 1, !.valid_results = @ + 1]
                ELSE [batch EXCEPT !.queued = @ - 1, !.semaphore = @ - 1,
                                   !.scheduled = @ + 1]
    /\ UNCHANGED otherThanBatch

\* the loop starts a row's column coroutines: each runs process_single_column
\* up to await loop.run_in_executor
StartColumns ==
    /\ batch.pc = "running"
    /\ batch.scheduled > 0
    /\ batch' = [batch EXCEPT !.scheduled = @ - 1,
                              !.gathering[batch.n_columns] = @ + 1]
    /\ UNCHANGED otherThanBatch

\* one process_single_column returns its (index, column, url or None) tuple,
\* for a row with r columns still running
ColumnReturns ==
    /\ batch.pc = "running"
    /\ \E r \in 1..MaxColumns :
          /\ batch.gathering[r] > 0
          /\ batch' = [batch EXCEPT !.gathering[r] = @ - 1, !.gathering[r - 1] = @ + 1]
    /\ UNCHANGED otherThanBatch

\* a row whose gather is complete resumes, builds task_result and leaves
\* async with semaphore
Release ==
    /\ batch.pc = "running"
    /\ batch.gathering[0] > 0
    /\ batch' = [batch EXCEPT !.gathering[0] = @ - 1, !.semaphore = @ + 1,
                              !.valid_results = @ + 1]
    /\ UNCHANGED otherThanBatch

\* every row has returned: process_task_batch returns valid_results
ReturnValidResults ==
    /\ batch.pc = "running"
    /\ batch.valid_results = batch.n_tasks
    /\ batch' = [batch EXCEPT !.pc = "returned"]
    /\ UNCHANGED otherThanBatch

NextBatch ==
    \/ /\ batch.pc = "idle"
       /\ \E shape \in BatchShapes : ProcessTaskBatch(shape)
    \/ Acquire
    \/ StartColumns
    \/ ColumnReturns
    \/ Release
    \/ ReturnValidResults

SpecBatch == Init /\ [][NextBatch]_vars

(***************************************************************************)
(* update_embedded_data.py:                                                *)
(* QualtricsEmbeddedDataUpdater.update_hidden_occupation_numbers.  A JSON  *)
(* object is a record, a JSON array a sequence, and a string the sequence  *)
(* of its pieces.                                                          *)
(***************************************************************************)
MaxFlow == 2

\* occupation_numbers
OccupationNumberLists == {<<>>, <<3>>, <<3, 12>>}

\* str(n)
Str(n) == CASE n = 3 -> "3" [] n = 12 -> "12"

\* occupation_numbers_str
OccupationNumbersStr(occupation_numbers) ==
    Join([k \in DOMAIN occupation_numbers |-> Str(occupation_numbers[k])])

\* the top-level elements a survey flow is built from: embedded data with
\* the field second, with the field alone, without the field; a block; and
\* a branch whose nested flow holds an embedded data element with the field
FlowElements ==
    {[FlowID |-> "FL_1", Type |-> "EmbeddedData", Flow |-> <<>>,
      EmbeddedData |-> <<[Field |-> "PROLIFIC_PID", Type |-> "Recipient", Value |-> <<>>],
                         [Field |-> "hidden_occupation_numbers", Type |-> "Recipient",
                          Value |-> <<"5">>]>>],
     [FlowID |-> "FL_2", Type |-> "EmbeddedData", Flow |-> <<>>,
      EmbeddedData |-> <<[Field |-> "hidden_occupation_numbers", Type |-> "Custom",
                          Value |-> <<>>]>>],
     [FlowID |-> "FL_3", Type |-> "EmbeddedData", Flow |-> <<>>,
      EmbeddedData |-> <<[Field |-> "PROLIFIC_PID", Type |-> "Recipient", Value |-> <<>>]>>],
     [FlowID |-> "FL_4", Type |-> "Block", Flow |-> <<>>, EmbeddedData |-> <<>>],
     [FlowID |-> "FL_5", Type |-> "Branch", EmbeddedData |-> <<>>,
      Flow |-> <<[FlowID |-> "FL_6", Type |-> "EmbeddedData",
                  EmbeddedData |-> <<[Field |-> "hidden_occupation_numbers",
                                      Type |-> "Custom", Value |-> <<"5">>]>>]>>]}

\* the survey's flow on the Qualtrics server: each element at most once
SurveyFlows ==
    {flow \in SeqsUpTo(FlowElements, MaxFlow) :
        \A i, j \in DOMAIN flow : i # j => flow[i].FlowID # flow[j].FlowID}

\* what requests.get can come back with: an exception, a status other than
\* 200, a body that is not JSON, JSON without result, a result without Flow,
\* or the flow
GetResponses == {"ConnectionError", "401", "not JSON", "no result", "no Flow", "flow"}

\* what requests.put can come back with
PutResponses ==
    {[raises |-> FALSE, status_code |-> 200], [raises |-> FALSE, status_code |-> 400],
     [raises |-> TRUE, status_code |-> 0]}

\* the inner loop's test on one element
HasField(el) ==
    /\ el.Type = "EmbeddedData"
    /\ \E k \in DOMAIN el.EmbeddedData :
          el.EmbeddedData[k].Field = "hidden_occupation_numbers"

\* the element a loop without its breaks would be left with
LastTargetIndex(flow_elements) ==
    IF \E i \in DOMAIN flow_elements : HasField(flow_elements[i])
    THEN CHOOSE i \in DOMAIN flow_elements :
             /\ HasField(flow_elements[i])
             /\ \A j \in DOMAIN flow_elements : HasField(flow_elements[j]) => j <= i
    ELSE 0

\* the index of target_element when the loops end, 0 for None
TargetIndex(flow_elements) ==
    IF \E i \in DOMAIN flow_elements : HasField(flow_elements[i])
    THEN CHOOSE i \in DOMAIN flow_elements :
             /\ HasField(flow_elements[i])
             /\ \A j \in DOMAIN flow_elements : HasField(flow_elements[j]) => i <= j
    ELSE 0

\* target_element after ed_field_obj, its first object with the field, was
\* updated in place
UpdatedElement(el, occupation_numbers_str) ==
    LET k == CHOOSE k \in DOMAIN el.EmbeddedData :
                 /\ el.EmbeddedData[k].Field = "hidden_occupation_numbers"
                 /\ \A j \in DOMAIN el.EmbeddedData :
                       el.EmbeddedData[j].Field = "hidden_occupation_numbers" => k <= j
    IN  [el EXCEPT !.EmbeddedData[k].Value = occupation_numbers_str,
                   !.EmbeddedData[k].Type = "Custom"]

\* the server's flow after PUT .../flow/{flowElementId} answered 200
FlowAfterPut(flow, flow_id, element) ==
    [i \in DOMAIN flow |-> IF flow[i].FlowID = flow_id THEN element ELSE flow[i]]

\* update_hidden_occupation_numbers(occupation_numbers), against a server
\* holding survey_flow that answers the GET with get and a PUT with put
UpdateHiddenOccupationNumbers(occupation_numbers, survey_flow, get, put) ==
    LET occupation_numbers_str == OccupationNumbersStr(occupation_numbers)
        target == IF get = "flow" THEN TargetIndex(survey_flow) ELSE 0
        target_element == UpdatedElement(survey_flow[target], occupation_numbers_str)
        done == [pc |-> "returned", occupation_numbers |-> occupation_numbers,
                 survey_flow |-> survey_flow, get |-> get, puts |-> <<>>,
                 flow_after |-> survey_flow, result |-> FALSE]
    IN  /\ updater' =
               IF target = 0 THEN done
               ELSE [done EXCEPT
                        !.puts = <<[flow_id |-> target_element.FlowID,
                                    json |-> target_element,
                                    status_code |-> put.status_code]>>,
                        !.flow_after =
                            IF ~put.raises /\ put.status_code = 200
                            THEN FlowAfterPut(survey_flow, target_element.FlowID,
                                              target_element)
                            ELSE survey_flow,
                        !.result = (~put.raises /\ put.status_code = 200)]
        /\ UNCHANGED otherThanUpdater

NextUpdater ==
    /\ updater.pc = "idle"
    /\ \E occupation_numbers \in OccupationNumberLists, survey_flow \in SurveyFlows,
          get \in GetResponses, put \in PutResponses :
           UpdateHiddenOccupationNumbers(occupation_numbers, survey_flow, get, put)

SpecUpdater == Init /\ [][NextUpdater]_vars

(***************************************************************************)
(* PDF_upload.py: apply_model_randomization.  A DataFrame is the sequence  *)
(* of its rows, a row a record of its cells; a URL is a tuple and the None *)
(* of a failed upload the empty tuple.                                     *)
(***************************************************************************)
MaxSheetRows == 6

\* model_columns
ModelColumns == <<"model1", "model2", "model3", "model4", "model5">>

\* the model cells of one row whose upload failed, per sheet
FailedUploads == {{}, {"model2"}, {"model2", "model4"}}

\* row i of results_df: every upload but the failed ones left its URL
ResultsRow(i, failed) ==
    [c \in {"task_id", "Question", "order_models"} \cup {ModelColumns[k] : k \in 1..5} |->
        CASE c = "task_id" -> <<"task", i>>
          [] c = "order_models" -> <<>>
          [] c \in failed -> <<>>
          [] OTHER -> <<"url", i, c>>]

\* the DataFrames save_randomized_output builds from results_list, the
\* failed uploads being those of its first row; and one without a model5
\* column, no row having had that cell
ResultsFrames ==
    {[i \in 1..n |-> ResultsRow(i, IF i = 1 THEN failed ELSE {})] :
        n \in 0..MaxSheetRows, failed \in FailedUploads}
    \cup {<<[c \in {"task_id", "Question", "order_models", "model1", "model2", "model3",
                   "model4"} |-> <<"url", 1, c>>]>>}

\* model_url_mapping
ModelUrlMapping(row) ==
    [name \in {ModelNames[i] : i \in 1..5} |->
        row[ModelColumns[CHOOSE i \in 1..5 : ModelNames[i] = name]]]

\* a row left in its original column order
OriginalRowData(row, current_order) == [c \in {ModelColumns[i] : i \in 1..5} |-> row[c]]

\* randomized_row_data
RandomizedRowData(row, current_order) ==
    [c \in {ModelColumns[i] : i \in 1..5} |->
        ModelUrlMapping(row)[current_order[CHOOSE i \in 1..5 : ModelColumns[i] = c]]]

\* apply_model_randomization(df): row[model_col] raises KeyError on a frame
\* without that column
ApplyModelRandomization(df) ==
    /\ IF \E idx \in DOMAIN df, i \in 1..5 : ModelColumns[i] \notin DOMAIN df[idx]
       THEN sheet' = [pc |-> "raised", df |-> df, randomized_df |-> <<>>]
       ELSE \E shuffled \in Shuffles(LatinSquareOrders) :
                LET latin_orders == ResultOrders(shuffled, Len(df))
                    randomized_model_data ==
                        [idx \in DOMAIN df |-> RandomizedRowData(df[idx], latin_orders[idx])]
                    order_strings == [idx \in DOMAIN df |-> Join(latin_orders[idx])]
                IN  sheet' =
                        [pc |-> "returned", df |-> df,
                         randomized_df |->
                             [idx \in DOMAIN df |->
                                 [c \in DOMAIN df[idx] |->
                                     IF c = "order_models" THEN order_strings[idx]
                                     ELSE IF c \in DOMAIN randomized_model_data[idx]
                                     THEN randomized_model_data[idx][c]
                                     ELSE df[idx][c]]]]
    /\ UNCHANGED otherThanSheet

NextSheet ==
    /\ sheet.pc = "idle"
    /\ \E df \in ResultsFrames : ApplyModelRandomization(df)

SpecSheet == Init /\ [][NextSheet]_vars

(***************************************************************************)
(* Claims about get_task_urls                                              *)
(***************************************************************************)
Answered(r, code) == req[r].pc = "done" /\ req[r].status = code
Succeeded(tid) == {r \in Requests : Answered(r, 200) /\ req[r].task_id = tid}
AvailableOf(s, tid) == {d \in DOMAIN s : s[d].task_id = tid /\ s[d].available}

\* C1: under any interleaving of concurrent get_task_urls requests, no task
\* instance is returned (200) to more than one request.
C1_NoDoubleAllocation ==
    \A r1, r2 \in Requests :
        (r1 # r2 /\ Answered(r1, 200) /\ Answered(r2, 200))
            => req[r1].body.task_instance_id # req[r2].body.task_instance_id

\* C2: two concurrent get_task requests with the same task_id, occupation
\* and round_id never receive the same task instance.
C2_NoDoubleAssignment ==
    \A r1, r2 \in Requests :
        (/\ r1 # r2
         /\ sreq[r1].pc = "done" /\ sreq[r1].status = 200
         /\ sreq[r2].pc = "done" /\ sreq[r2].status = 200
         /\ sreq[r1].task_id = sreq[r2].task_id
         /\ sreq[r1].occupation = sreq[r2].occupation
         /\ sreq[r1].round_id = sreq[r2].round_id)
            => /\ sreq[r1].instance_id # sreq[r2].instance_id
               /\ sreq[r1].body.task_instance_url # sreq[r2].body.task_instance_url

\* C3: with non-overlapping requests and nothing else touching the store,
\* every returned instance was available at the start and is now unavailable
\* with assigned_at set, no instance is returned twice, the successes for a
\* task plus its still-available instances equal its initially available
\* instances, and a 404 is given only once none is left.
C3_SequentialAllocation ==
    \A tid \in TaskIds :
        /\ \A r \in Succeeded(tid) :
              LET d == req[r].body.task_instance_id
              IN  /\ d \in AvailableOf(store0, tid)
                  /\ store[d].available = FALSE
                  /\ store[d].assigned_at # NoTime
                  /\ req[r].body.task_url = store0[d].task_url
        /\ \A r1, r2 \in Succeeded(tid) :
              r1 # r2 => req[r1].body.task_instance_id # req[r2].body.task_instance_id
        /\ Cardinality(Succeeded(tid)) + Cardinality(AvailableOf(store, tid))
              = Cardinality(AvailableOf(store0, tid))
        /\ \A r \in Requests :
              (Answered(r, 404) /\ req[r].task_id = tid)
                  => /\ AvailableOf(store, tid) = {}
                     /\ Cardinality(Succeeded(tid)) = Cardinality(AvailableOf(store0, tid))
        /\ \A r \in Requests :
              (req[r].pc = "done" /\ req[r].task_id = tid) => req[r].status \in {200, 404}

\* two requests served the two available instances of a task, a third got 404
C3_Witness ==
    \E tid \in TaskIds : \E r \in Requests :
        /\ Cardinality(Succeeded(tid)) >= 2
        /\ Answered(r, 404) /\ req[r].task_id = tid

C5_OccupationRequestServed ==
    [][\A r \in Requests :
          (/\ req[r].pc # "done" /\ req'[r].pc = "done"
           /\ req'[r].task_id = None /\ req'[r].occupation_id # None
           /\ \E d \in DOMAIN store :
                  store[d].occupation_id = req'[r].occupation_id /\ store[d].available)
            => /\ req'[r].status = 200
               /\ req'[r].body.task_url # <<>>
               /\ Len(req'[r].body.response_urls) = NumResponseUrls]_vars

(***************************************************************************)
(* Claims about update_task_availability                                   *)
(***************************************************************************)
Updated == resp.op = "update_task_availability"
\* the listed items that have both keys, as positions of the list
Listed == {k \in 1..Len(resp.data.task_instances) :
              BothKeys \subseteq resp.data.task_instances[k].keys}
Item(k) == resp.data.task_instances[k]
SameButAvailable(a, b) == [a EXCEPT !.available = b.available] = b

\* C6: an update naming an instance that does not exist is answered 404, one
\* naming existing instances 200.
C6_UnknownInstanceIs404 ==
    (Updated /\ resp.data.has_task_instances /\ Listed # {})
        => IF \E k \in Listed : Item(k).task_instance_id \notin DOMAIN store0
           THEN resp.status = 404
           ELSE resp.status = 200

\* C7 as stated: either every listed item with both keys has its instance's
\* available set to the item's value and updated_count counts those items, or
\* nothing changes; no other field and no other instance changes.
C7_AtomicBatchEveryItem ==
    Updated =>
        /\ DOMAIN store = DOMAIN store0
        /\ \A d \in DOMAIN store : SameButAvailable(store0[d], store[d])
        /\ \/ /\ resp.status = 200
              /\ resp.updated_count = Cardinality(Listed)
              /\ \A k \in Listed :
                    /\ Item(k).task_instance_id \in DOMAIN store
                    /\ store[Item(k).task_instance_id].available = Item(k).available
              /\ \A d \in DOMAIN store :
                    (\A k \in Listed : Item(k).task_instance_id # d) => store[d] = store0[d]
           \/ /\ resp.status # 200
              /\ store = store0

\* C7 amended: as above, but an instance named by several items gets the
\* value of the last item naming it.
C7_AtomicBatchLastItem ==
    Updated =>
        /\ DOMAIN store = DOMAIN store0
        /\ \A d \in DOMAIN store : SameButAvailable(store0[d], store[d])
        /\ \/ /\ resp.status = 200
              /\ resp.updated_count = Cardinality(Listed)
              /\ \A k \in Listed :
                    /\ Item(k).task_instance_id \in DOMAIN store
                    /\ (\A j \in Listed :
                            Item(j).task_instance_id = Item(k).task_instance_id => j <= k)
                         => store[Item(k).task_instance_id].available = Item(k).available
              /\ \A d \in DOMAIN store :
                    (\A k \in Listed : Item(k).task_instance_id # d) => store[d] = store0[d]
           \/ /\ resp.status # 200
              /\ store = store0

\* a two-item batch naming two instances changed both; and a batch naming a
\* missing instance beside an existing one changed nothing
C7_Witness ==
    /\ Updated
    /\ resp.status = 200
    /\ resp.updated_count = 2
    /\ Cardinality({d \in DOMAIN store : store[d].available # store0[d].available}) = 2
    /\ \E d \in DOMAIN store : store[d].assigned_at # NoTime

ListAnswered == resp.op = "list_unavailable_occupations"
OccupationsOf(l) == {l[k].occupation_id : k \in DOMAIN l}
NoRepeats(l) == Cardinality(OccupationsOf(l)) = Len(l)

\* C9 (as stated): after any sequence of get_task_urls,
\* update_task_availability and import_data operations, every response of
\* list_unavailable_occupations lists exactly the occupations that at
\* response time have an instance and no available instance.
C9_ListsDepletedNow ==
    ListAnswered
        => /\ OccupationsOf(resp.unavailable_occupations) = Depleted(store)
           /\ NoRepeats(resp.unavailable_occupations)

\* C9 (amended): a response with cached=false lists exactly the occupations
\* that at response time have an instance and no available instance; a
\* response with cached=true lists exactly those that had an instance and no
\* available instance when the cache was last refreshed.
C9_ListsDepletedAtRefresh ==
    ListAnswered
        => /\ NoRepeats(resp.unavailable_occupations)
           /\ OccupationsOf(resp.unavailable_occupations) = refreshed
           /\ ~resp.cached => refreshed = Depleted(store)

\* a cached response that differs from the collection at response time
C9_Witness ==
    /\ ListAnswered
    /\ resp.cached
    /\ resp.unavailable_occupations # <<>>
    /\ Depleted(store) # refreshed

Forced(a) == a.force_refresh \in {"true", "TRUE"}

\* C10: a list_unavailable_occupations request with force_refresh=true is
\* answered with cached=false from the collection, and replaces the cache's
\* data and last_updated; a request is answered with cached=true only when
\* it does not force a refresh, the cache is non-empty and its age is at
\* most cache_duration minutes.
C10_ForceRefreshAndCacheUse ==
    [][\A a \in ListParams :
          ListUnavailableOccupations(a) =>
              LET cache == unavailable_occupations_cache
                  cache_duration == IF a.cache_duration = <<>> THEN cache.cache_duration
                                    ELSE a.cache_duration[1]
              IN  /\ Forced(a) =>
                        /\ resp'.cached = FALSE
                        /\ OccupationsOf(resp'.unavailable_occupations) = Depleted(store)
                        /\ unavailable_occupations_cache'.last_updated = At(now)
                        /\ OccupationsOf(unavailable_occupations_cache'.data)
                               = Depleted(store)
                  /\ resp'.cached = TRUE =>
                        /\ ~Forced(a)
                        /\ cache.data # <<>>
                        /\ cache.last_updated # NoTime
                        /\ now - cache.last_updated[1] <= cache_duration
                        /\ resp'.unavailable_occupations
                               = Sorted(cache.data, a.sort)]_vars

\* a forced refresh a minute after the start that found a depleted
\* occupation, while the cache keeps entries for the default 15 minutes
C10_Witness ==
    /\ ListAnswered
    /\ Forced(resp.args)
    /\ resp.args.cache_duration = <<>>
    /\ unavailable_occupations_cache.cache_duration = 15
    /\ ~resp.cached
    /\ resp.unavailable_occupations # <<>>
    /\ unavailable_occupations_cache.last_updated = At(1)

(***************************************************************************)
(* Claims about the SQLite service                                         *)
(***************************************************************************)
\* A step in which get_task answers 200: every handler of the service
\* replaces sresp with an answer of its own.
GetTaskAnswers == sresp'.op = "get_task" /\ sresp'.status = 200

\* the instances of the same task as instance i that are assigned to no one
UnassignedOf(i) ==
    {j \in DOMAIN task_instances :
        /\ task_instances[j].task_id = task_instances[i].task_id
        /\ task_instances[j].is_assigned = FALSE}

\* C11: whenever an unassigned instance of the requested task exists, the
\* instance get_task returns is an unassigned one.
C11_UnassignedFirst ==
    [][(GetTaskAnswers /\ UnassignedOf(sresp'.instance_id) # {})
           => sresp'.instance_id \in UnassignedOf(sresp'.instance_id)]_vars

\* C12: an instance whose is_completed is TRUE is never returned by get_task.
C12_CompletedNeverReturned ==
    [][GetTaskAnswers => task_instances[sresp'.instance_id].is_completed = FALSE]_vars

\* C13: a successful get_task response carries the url of the instance it
\* assigned and exactly 5 model response slots: 5 pairwise distinct
\* responses of that instance when it has more than 5, else all its k
\* responses in the first k slots and null in the others.
C13_FiveModelSlots ==
    [][GetTaskAnswers =>
              LET i == sresp'.instance_id
                  urls == sresp'.body.model_urls
                  own == {model_responses[i][m] : m \in DOMAIN model_responses[i]}
                  k == Len(model_responses[i])
              IN  /\ task_instances'[i].is_assigned
                  /\ sresp'.body.task_instance_url = task_instances[i].pdf_url
                  /\ DOMAIN urls = 1..5
                  /\ IF k > 5
                     THEN /\ \A a \in 1..5 : urls[a] \in own
                          /\ \A a, b \in 1..5 : a # b => urls[a] # urls[b]
                     ELSE /\ {urls[a] : a \in 1..k} = own
                          /\ \A a \in (k + 1)..5 : urls[a] = <<>>]_vars

\* an answer for an instance with more than 5 model responses
C13_Witness ==
    /\ sresp.op = "get_task"
    /\ sresp.status = 200
    /\ Len(model_responses[sresp.instance_id]) > 5
    /\ sresp.body.model_urls[1] # model_responses[sresp.instance_id][1]

\* A step in which reset_assignments answers.
ResetAnswers == sresp'.op = "reset_assignments"
SameTaskData(row, after) ==
    /\ after.task_id = row.task_id
    /\ after.instance_number = row.instance_number
    /\ after.pdf_url = row.pdf_url

\* C14: reset_assignments with retain_completion true (the default) sets
\* is_assigned FALSE and assigned_round 0 on the instances that are not
\* completed and leaves the completed ones as they are; with
\* retain_completion false every instance ends unassigned, not completed,
\* in round 0; tasks, model_responses and pdf_url values never change.
C14_ResetFrame ==
    [][ResetAnswers =>
          /\ tasks' = tasks
          /\ model_responses' = model_responses
          /\ DOMAIN task_instances' = DOMAIN task_instances
          /\ \A i \in DOMAIN task_instances :
                LET row == task_instances[i]
                    after == task_instances'[i]
                IN  /\ SameTaskData(row, after)
                    /\ IF sresp'.args /\ row.is_completed
                       THEN after = row
                       ELSE /\ after.is_assigned = FALSE
                            /\ after.assigned_round = 0
                            /\ after.is_completed = FALSE]_vars

\* after a reset that retains completion: a completed instance still
\* assigned in its round next to an instance that is free again
C14_Witness ==
    /\ sresp.op = "reset_assignments"
    /\ sresp.args
    /\ sresp.count > 0
    /\ \E i, j \in DOMAIN task_instances :
          /\ task_instances[i].is_completed
          /\ task_instances[i].is_assigned
          /\ task_instances[i].assigned_round > 0
          /\ ~task_instances[j].is_completed
          /\ ~task_instances[j].is_assigned

(***************************************************************************)
(* Claims about the Latin square orders                                    *)
(***************************************************************************)
Returned == latin.pc = "returned"
\* the number of rows in which model m is at position k
RowsWith(m, k) ==
    Cardinality({i \in DOMAIN latin.result_orders : latin.result_orders[i][k] = ModelNames[m]})
Fifth == 1..5

\* C15: in the orders generate_latin_square_orders returns, the counts of
\* rows with a given model at a given position differ by at most 1 between
\* any two (model, position) pairs, are all equal when n_rows is a multiple
\* of 5, are within 1 of n_rows / 5, and verify_latin_square_balance finds
\* them balanced.
C15_EqualPositionCounts ==
    Returned =>
        /\ Len(latin.result_orders) = latin.n_rows
        /\ \A m1, k1, m2, k2 \in Fifth :
              /\ RowsWith(m1, k1) - RowsWith(m2, k2) <= 1
              /\ latin.n_rows % 5 = 0 => RowsWith(m1, k1) = RowsWith(m2, k2)
        /\ \A m, k \in Fifth :
              /\ 5 * RowsWith(m, k) - latin.n_rows <= 5
              /\ latin.n_rows - 5 * RowsWith(m, k) <= 5
        /\ latin.balanced

\* orders for a number of rows that is no multiple of 5, where some counts
\* differ
C15_Witness ==
    /\ Returned
    /\ latin.n_rows > 5
    /\ latin.n_rows % 5 # 0
    /\ \E m1, k1, m2, k2 \in Fifth : RowsWith(m1, k1) # RowsWith(m2, k2)

\* the base permutation shifted cyclically by s places
CyclicShift(s) == [k \in Fifth |-> ModelNames[((k - 1 + s) % 5) + 1]]

\* C16: every order returned is a cyclic shift of the 5 model names, rows i
\* and i+5 get the same order, any 5 consecutive rows get 5 different
\* orders, and a call with n_models other than 5 raises an error and
\* returns no orders.
C16_CyclicShiftsOfPeriodFive ==
    /\ Returned =>
          /\ latin.n_models = 5
          /\ \A i \in DOMAIN latin.result_orders :
                /\ \E s \in 0..4 : latin.result_orders[i] = CyclicShift(s)
                /\ \A m \in Fifth : \E k \in Fifth : latin.result_orders[i][k] = ModelNames[m]
                /\ (i + 5) \in DOMAIN latin.result_orders
                      => latin.result_orders[i + 5] = latin.result_orders[i]
                /\ \A j \in DOMAIN latin.result_orders :
                      (i < j /\ j < i + 5) => latin.result_orders[j] # latin.result_orders[i]
    /\ latin.pc # "idle" =>
          (latin.n_models # 5 <=> latin.pc = "raised")
    /\ latin.pc = "raised" => latin.result_orders = <<>>

\* orders for more than 5 rows that do not start with the base permutation
C16_Witness ==
    /\ Returned
    /\ latin.n_rows > 5
    /\ latin.result_orders[1] # ModelNames
    /\ latin.result_orders[2] # CyclicShift(1)

(***************************************************************************)
(* Claims about the completion codes                                       *)
(***************************************************************************)
\* the flag is TRUE (FALSE), whatever its case and the spaces around it
IsTrue(flag) == decision.csv_row[flag] \in {"TRUE", " true "}
IsFalse(flag) == decision.csv_row[flag] \in {"FALSE", " false "}

\* C17: determine_completion_code applies its rules in order and the first
\* that fires decides: no_consent, then failed_two_plus_attention_checks,
\* then the screening flags and screened_out, then
\* incomplete_survey_other_reasons, then APPROVED for a completed survey
\* not marked approved = FALSE, else None.
C17_FirstRuleDecides ==
    decision.pc = "determined" =>
        decision.completion_code =
            IF IsTrue("no_consent") THEN "COISODYI"
            ELSE IF IsTrue("failed_two_plus_attention_checks") THEN "C1M8R1Y4"
            ELSE IF \/ IsTrue("did_not_understand_tasks")
                    \/ IsTrue("occupation_not_confirmed")
                    \/ IsTrue("insufficient_work_experience")
                    \/ IsTrue("screened_out") THEN "C1NFUEQ1"
            ELSE IF IsTrue("incomplete_survey_other_reasons") THEN "C1M8R1Y4"
            ELSE IF IsTrue("completed_survey") /\ ~IsFalse("approved") THEN "C1G9PC0D"
            ELSE None

\* a row where a later rule would fire too and the flags are not written
\* in upper case
C17_Witness ==
    /\ decision.pc = "determined"
    /\ decision.csv_row["no_consent"] = " false "
    /\ decision.csv_row["failed_two_plus_attention_checks"] = " true "
    /\ decision.csv_row["screened_out"] = "TRUE"
    /\ decision.csv_row["completed_survey"] = "TRUE"
    /\ decision.completion_code = "C1M8R1Y4"

\* C18: get_api_action_for_completion_code returns SKIP, REJECT or
\* SCREEN_OUT for every value determine_completion_code can return.
C18_ActionIsOneOfThree ==
    decision.pc = "action" => decision.api_action \in {"SKIP", "REJECT", "SCREEN_OUT"}

(***************************************************************************)
(* Claims about the review plan                                            *)
(***************************************************************************)
PlanRows == {plan.review_plan[i] : i \in DOMAIN plan.review_plan}
InCsv(row) == row.prolific_participant_id \in DOMAIN plan.participant_data

\* C19: a submission found in the CSV whose actual completion code is the
\* configured code for APPROVED with local status APPROVED, for
\* FAILED_ATTENTION with local status REJECTED, or for NO_CONSENT or
\* SCREENED_OUT with local status SCREENED-OUT or REJECTED, is classified
\* MATCH and counted in matches.
C19_ConfiguredCodesMatch ==
    plan.pc = "returned" =>
        \A row \in PlanRows :
            (/\ InCsv(row)
             /\ \/ row.actual_completion_code = "C1G9PC0D" /\ row.local_status = "APPROVED"
                \/ row.actual_completion_code = "C1M8R1Y4" /\ row.local_status = "REJECTED"
                \/ /\ row.actual_completion_code \in {"COISODYI", "C1NFUEQ1"}
                   /\ row.local_status \in {"SCREENED-OUT", "REJECTED"})
                => /\ row.validation_status = "MATCH"
                   /\ plan.validation_summary.matches > 0

\* C20: the proposed action of a submission with an actual completion code
\* is a function of that code, and a submission with the configured
\* FAILED_ATTENTION or NO_CONSENT code is never proposed APPROVE or
\* APPROVE_NO_LOCAL_DATA, in the CSV or not.
C20_ActionFollowsCode ==
    plan.pc = "returned" =>
        /\ \A row \in PlanRows :
              row.actual_completion_code \in {"C1M8R1Y4", "COISODYI"}
                  => row.proposed_action \notin {"APPROVE", "APPROVE_NO_LOCAL_DATA"}
        /\ \A row, other \in PlanRows :
              (row.actual_completion_code # ""
                  /\ row.actual_completion_code = other.actual_completion_code)
                  => row.proposed_action = other.proposed_action

(***************************************************************************)
(* Claims about the Dropbox upload                                         *)
(***************************************************************************)
\* the shared link of the attempt a call returned from
LinkOfLastAttempt ==
    <<[path |-> <<"/Benchmark Storage ALL PDFS REORDERED 2-19/", upload.filename>>,
       attempt |-> upload.made - 1]>>

\* C21, at every point of a call: at most 3 attempts are made, every one
\* before the current one failed, the waits so far are 1 then 2, a return
\* carries the link of the attempt that succeeded, and a raise comes after
\* exactly 3 failures with the error of the 3rd.
UploadRetriesBounded ==
    upload.pc # "idle" =>
        /\ upload.made <= 3
        /\ Len(upload.errors) = (IF upload.pc = "returned" THEN upload.made - 1 ELSE upload.made)
        /\ \A k \in 1..Len(upload.errors) : upload.errors[k].call # "return"
        /\ upload.slept = SubSeq(<<1, 2>>, 1, Len(upload.slept))
        /\ Len(upload.slept) = (IF upload.pc = "try" THEN upload.made ELSE upload.made - 1)
        /\ upload.pc = "returned" => upload.result = LinkOfLastAttempt
        /\ upload.pc = "raised" =>
              /\ upload.made = 3
              /\ upload.raised = upload.errors[3].error

\* C21: upload_to_dropbox_async makes at most MAX_RETRIES attempts, returns
\* the shared-link URL of the first attempt whose upload and link creation
\* both succeed, waits 1 then 2 units between attempts, raises the last
\* error after the 3rd failure, and every call ends in a return with a URL
\* or in a raise.
C21_BoundedRetry ==
    /\ [](UploadRetriesBounded)
    /\ (upload.pc = "try" ~> upload.pc \in {"returned", "raised"})

\* a call that failed twice, waited 1 then 2, and returned the third
\* attempt's link
C21_Witness ==
    /\ upload.pc = "returned"
    /\ upload.made = 3
    /\ upload.slept = <<1, 2>>
    /\ upload.result # <<>>

\* the process_single_column invocations that have started and not returned
ColumnsInProgress ==
    batch.gathering[1] + 2 * batch.gathering[2] + 3 * batch.gathering[3]
        + 4 * batch.gathering[4] + 5 * batch.gathering[5] + 6 * batch.gathering[6]

\* C22: while process_task_batch runs, at most MAX_CONCURRENT_UPLOADS (20)
\* process_single_column invocations are in progress at the same time.
C22_UploadsBoundedBySemaphore ==
    batch.pc = "running" => ColumnsInProgress <= 20

(***************************************************************************)
(* Claims about the Qualtrics embedded data update                         *)
(***************************************************************************)
\* the fetched flow's elements that are EmbeddedData elements with the field
Containing ==
    {i \in DOMAIN updater.survey_flow :
        /\ updater.survey_flow[i].Type = "EmbeddedData"
        /\ \E k \in DOMAIN updater.survey_flow[i].EmbeddedData :
              updater.survey_flow[i].EmbeddedData[k].Field = "hidden_occupation_numbers"}

\* the flow was fetched and one of its elements holds the field
FieldFound == updater.get = "flow" /\ Containing # {}

\* the comma-joined numbers
JoinedNumbers ==
    CASE updater.occupation_numbers = <<>> -> <<>>
      [] updater.occupation_numbers = <<3>> -> <<"3">>
      [] updater.occupation_numbers = <<3, 12>> -> <<"3", ",", "12">>

\* C23: when the GET fails or no EmbeddedData element of the fetched flow
\* holds hidden_occupation_numbers, the method returns False, issues no PUT
\* and the survey is unchanged; otherwise it issues exactly one PUT, for the
\* first such element, carrying the field with the comma-joined numbers as
\* its Value, and returns True iff that PUT answered 200.
C23_PutOnlyWhenFieldFound ==
    updater.pc = "returned" =>
        IF ~FieldFound
        THEN /\ updater.result = FALSE
             /\ updater.puts = <<>>
             /\ updater.flow_after = updater.survey_flow
        ELSE LET first == CHOOSE i \in Containing : \A j \in Containing : i <= j
                 sent == updater.puts[1]
             IN  /\ Len(updater.puts) = 1
                 /\ sent.flow_id = updater.survey_flow[first].FlowID
                 /\ sent.json.FlowID = sent.flow_id
                 /\ \E k \in DOMAIN sent.json.EmbeddedData :
                       /\ sent.json.EmbeddedData[k].Field = "hidden_occupation_numbers"
                       /\ sent.json.EmbeddedData[k].Value = JoinedNumbers
                 /\ updater.result = (sent.status_code = 200)

\* a flow with two elements holding the field, the first one sent with the
\* two numbers joined, and the PUT answered 200
C23_Witness ==
    /\ updater.pc = "returned"
    /\ Cardinality(Containing) = 2
    /\ updater.occupation_numbers = <<3, 12>>
    /\ Len(updater.puts) = 1
    /\ updater.result = TRUE

(***************************************************************************)
(* Claims about the model randomization                                    *)
(***************************************************************************)
\* the column that held a model's URL before randomization
OriginalColumn(name) ==
    CASE name = "GPT_4o_2025" -> "model1"
      [] name = "Claude_3_Opus" -> "model2"
      [] name = "Gemini_Ultra" -> "model3"
      [] name = "GPT_4_Turbo" -> "model4"
      [] name = "Claude_3_Sonnet" -> "model5"

\* the five model columns, by position
ModelColumn(i) == <<"model1", "model2", "model3", "model4", "model5">>[i]

\* C24: in every row apply_model_randomization returns, the cells of
\* model1..model5 are a permutation of the row's cells before, every other
\* column but order_models is unchanged, and order_models is the
\* comma-joined list of five distinct model names such that column
\* model(i+1) holds the URL that was in the column of the i-th name.
C24_PermutesWithinRowAndRecordsOrder ==
    sheet.pc = "returned" =>
        /\ Len(sheet.randomized_df) = Len(sheet.df)
        /\ \A idx \in DOMAIN sheet.df :
              LET before == sheet.df[idx]
                  after == sheet.randomized_df[idx]
                  order == SelectSeq(after["order_models"], LAMBDA piece : piece # ",")
              IN  /\ DOMAIN after = DOMAIN before
                  /\ \E perm \in Permutations(1..5) :
                        \A i \in 1..5 : after[ModelColumn(i)] = before[ModelColumn(perm[i])]
                  /\ after["task_id"] = before["task_id"]
                  /\ after["Question"] = before["Question"]
                  /\ Len(order) = 5
                  /\ Len(after["order_models"]) = 9
                  /\ \A i, j \in 1..5 : i # j => order[i] # order[j]
                  /\ \A i \in 1..5 :
                        after[ModelColumn(i)] = before[OriginalColumn(order[i])]

\* six rows randomized, the first with two failed uploads and its model1
\* cell moved to another column
C24_Witness ==
    /\ sheet.pc = "returned"
    /\ Len(sheet.df) = 6
    /\ sheet.df[1]["model2"] = <<>>
    /\ sheet.df[1]["model4"] = <<>>
    /\ sheet.randomized_df[1]["model1"] # sheet.df[1]["model1"]
    /\ sheet.randomized_df[6]["order_models"] = sheet.randomized_df[1]["order_models"]

\* the validation_summary key a validation status stands for
CounterNamed(validation_status) ==
    CASE validation_status = "MATCH" -> "matches"
      [] validation_status = "MISMATCH" -> "mismatches"
      [] validation_status = "CODE_ONLY" -> "code_only"
      [] validation_status = "CSV_ONLY" -> "csv_only"
      [] validation_status = "NEITHER" -> "neither"
      [] OTHER -> ""

\* the plan has one entry per submission, in input order; the five counters
\* are the numbers of entries in the CSV with the status naming them, so
\* they add up to the number of entries in the CSV; and NO_CSV_DATA is the
\* status of exactly the entries not in the CSV
PlanPartitionsSubmissions ==
    /\ Len(plan.review_plan) = Len(plan.prolific_submissions)
    /\ \A i \in DOMAIN plan.review_plan :
          /\ plan.review_plan[i].prolific_participant_id
                 = plan.prolific_submissions[i].participant_id
          /\ plan.review_plan[i].actual_completion_code
                 = plan.prolific_submissions[i].study_code
          /\ InCsv(plan.review_plan[i])
                 => CounterNamed(plan.review_plan[i].validation_status) # ""
          /\ InCsv(plan.review_plan[i])
                 <=> plan.review_plan[i].validation_status # "NO_CSV_DATA"
    /\ \A key \in DOMAIN plan.validation_summary :
          plan.validation_summary[key]
              = Cardinality({i \in DOMAIN plan.review_plan :
                                /\ InCsv(plan.review_plan[i])
                                /\ CounterNamed(plan.review_plan[i].validation_status) = key})
    /\ plan.validation_summary.matches + plan.validation_summary.mismatches
           + plan.validation_summary.code_only + plan.validation_summary.csv_only
           + plan.validation_summary.neither
           = Cardinality({i \in DOMAIN plan.review_plan : InCsv(plan.review_plan[i])})

\* C25: generate_review_plan returns one entry per submission in input
\* order, its counters partition the submissions found in the CSV by
\* validation status, NO_CSV_DATA marks exactly the entries not in the CSV,
\* and the action NO_ACTION_NO_CSV_DATA is proposed only for entries whose
\* participant is not in the CSV.
C25_PlanPartitionAndNoCsvAction ==
    plan.pc = "returned" =>
        /\ PlanPartitionsSubmissions
        /\ \A row \in PlanRows :
              row.proposed_action = "NO_ACTION_NO_CSV_DATA" => ~InCsv(row)

====
